---- MODULE Spec2Model ----
(***************************************************************************)
(* Lifecycle of the two OpenVPN 3 Linux D-Bus daemons                      *)
(*   src/src/configmgr/openvpn3-service-configmgr.cpp  (configmgr)         *)
(*   src/src/netcfg/openvpn3-service-netcfg.cpp        (netcfg)            *)
(* One behaviour is one process: main(), the command function, the         *)
(* IdleCheck poll thread and the signals the environment sends.            *)
(***************************************************************************)
EXTENDS Integers, Sequences, FiniteSets, TLC

(***************************************************************************)
(* Bounds of the model                                                     *)
(***************************************************************************)
\* Largest number of consecutive idle polls the poll thread counts.
MaxPollTicks == 10
\* Largest number of SIGINT/SIGTERM the environment delivers.
MaxSignals == 2
\* Largest log level given on a command line (the options accept 0-6).
MaxLogLevel == 6

(***************************************************************************)
(* Program constants                                                       *)
(***************************************************************************)
CfgmgrDefaultIdle == 3
NetcfgDefaultIdle == 5
\* SetPollTime(std::chrono::seconds(30)): two polls per minute of threshold.
NetcfgPollsPerMinute == 2
\* configmgr keeps IdleCheck's own poll time: one poll per minute here.
CfgmgrPollsPerMinute == 1
\* unsigned int log_level = 3;  (configmgr)
CfgmgrDefaultLogLevel == 3
\* int log_level = -1;  (netcfg: no log level given)
NetcfgNoLogLevel == -1

(***************************************************************************)
(* std::atoi and the conversion of its int result to unsigned int.         *)
(* A command-line value is a sequence of one-character strings.            *)
(***************************************************************************)
Digits == <<"0", "1", "2", "3", "4", "5", "6", "7", "8", "9">>

IsDigit(c) == \E i \in 1..10 : Digits[i] = c

DigitVal(c) == (CHOOSE i \in 1..10 : Digits[i] = c) - 1

RECURSIVE AtoiDigits(_, _)
\* Consumes digits from the front of s, stops at the first other character.
AtoiDigits(s, acc) ==
    IF s = <<>> \/ ~IsDigit(Head(s))
    THEN acc
    ELSE AtoiDigits(Tail(s), acc * 10 + DigitVal(Head(s)))

RECURSIVE SkipSpace(_)
SkipSpace(s) == IF s # <<>> /\ Head(s) = " " THEN SkipSpace(Tail(s)) ELSE s

Atoi(str) ==
    LET s == SkipSpace(str)
    IN  IF s = <<>> THEN 0
        ELSE IF Head(s) = "-" THEN 0 - AtoiDigits(Tail(s), 0)
        ELSE IF Head(s) = "+" THEN AtoiDigits(Tail(s), 0)
        ELSE AtoiDigits(s, 0)

\* An unsigned int (32 bits) as two 16-bit halves: the value is hi * 2^16 + lo.
ToUnsigned(n) == [hi |-> (n \div 65536) % 65536, lo |-> n % 65536]

\* The comparison with > replaced by >=.
UPositive_OrZero(u) == u.hi >= 0 \/ u.lo >= 0

\* idle_wait_min > 0
UPositive(u) == u.hi > 0 \/ u.lo > 0

(***************************************************************************)
(* Command lines.  An option holds the sequence of values given to it:     *)
(* Present(opt) is "at least one", GetValue(opt, 0) is the first.          *)
(***************************************************************************)
Present(opt) == Len(opt) > 0

GetValue(opt, i) == opt[i + 1]

IdleExitValues ==
    { <<"0">>, <<"1">>, <<"2">>, <<"-", "1">>, <<"x">> }

LogFileValues == { "stdout:", "/var/log/openvpn3.log" }

LogLevelValues == { <<Digits[n + 1]>> : n \in 0..MaxLogLevel }

DefaultArgs ==
    [ usage_error          |-> FALSE,
      log_level            |-> <<>>,
      log_file             |-> <<>>,
      colour               |-> FALSE,
      signal_broadcast     |-> FALSE,
      idle_exit            |-> <<>>,
      run_as_root          |-> FALSE,
      disable_capabilities |-> FALSE ]

\* The command lines of one build: the debug options exist only with
\* DEBUG_OPTIONS; colour only matters with a log file; the log level, which
\* no other option interacts with, is varied on otherwise default lines.
ArgSets(debug) ==
    { [DefaultArgs EXCEPT !.usage_error = TRUE] } \cup
    { [DefaultArgs EXCEPT !.log_level = <<v>>] : v \in LogLevelValues } \cup
    { a \in
      { [ usage_error          |-> FALSE,
          log_level            |-> <<>>,
          log_file             |-> lf,
          colour               |-> col,
          signal_broadcast     |-> sb,
          idle_exit            |-> ie,
          run_as_root          |-> rar,
          disable_capabilities |-> dc ] :
          lf \in {<<>>} \cup { <<v>> : v \in LogFileValues },
          col \in BOOLEAN, sb \in BOOLEAN,
          ie \in {<<>>} \cup { <<v>> : v \in IdleExitValues },
          rar \in (IF debug THEN BOOLEAN ELSE {FALSE}),
          dc \in (IF debug THEN BOOLEAN ELSE {FALSE}) } :
      Present(a.log_file) \/ ~a.colour }

(***************************************************************************)
(* State                                                                   *)
(***************************************************************************)
VARIABLES
    daemon,           \* "configmgr" or "netcfg"
    debug_options,    \* netcfg built with DEBUG_OPTIONS
    started_as_root,  \* geteuid() = 0 at exec
    egid_root,        \* getegid() = 0 at exec
    args,             \* the command line
    pc,               \* the statement the main thread executes next
    trace,            \* the calls the main thread has made, in order
    outcome,          \* "running", or how the process ended
    exit_code,        \* main()'s return value, -1 while there is none
    thrown,           \* the exception that ended the command function
    identity,         \* "root", "user" (unprivileged invoker) or "openvpn"
    ng_caps,          \* libcap-ng's working capability state
    proc_caps,        \* the capabilities the process holds
    res,              \* int res = capng_change_id(...) in drop_root_ng()
    idle_wait_min,    \* unsigned int idle_wait_min
    logfile,          \* std::ostream *logfile: "null", "logfs" or "cout"
    logwr,            \* LogWriter::Ptr logwr: "null", "stream" or "colour"
    dbus,             \* DBus dbus: "none", "connected" or "released"
    payload,          \* cfgmgr / netcfgsrv: "none", "constructed", "setup"
    payload_log_level,\* the values passed to the payload's log-level setter
    logsrvprx,        \* the LogServiceProxy::Ptr is non-null
    main_loop,        \* GMainLoop *main_loop: "null", "alive" or "freed"
    loop_is_running,  \* GMainLoop's is_running flag
    stop_handler,     \* g_unix_signal_add(SIGINT/SIGTERM, stop_handler) done
    idle_exit,        \* the IdleCheck object and its poll thread
    busy,             \* the payload holds at least one live object
    sig_pending,      \* signals waiting for the loop to dispatch stop_handler
    signals_sent,     \* signals delivered so far
    stop_calls,       \* times stop_handler asked the loop to quit
    ub                \* g_main_loop_quit() was called on a freed loop

inputs == <<daemon, debug_options, started_as_root, egid_root, args>>
priv   == <<identity, ng_caps, proc_caps, res>>
logv   == <<logfile, logwr>>
loopv  == <<main_loop, loop_is_running, stop_handler>>
envv   == <<busy, sig_pending, signals_sent, stop_calls, ub>>

vars == <<inputs, pc, trace, outcome, exit_code, thrown, priv, idle_wait_min,
          logv, dbus, payload, payload_log_level, logsrvprx, loopv, idle_exit,
          envv>>

NoException == [kind |-> "none", at |-> "none"]

AllCaps == {"CAP_NET_ADMIN", "CAP_SYS_ADMIN"}

\* IdleCheck::Ptr idle_exit before reset(): no object.
NoIdleCheck ==
    [ constructed   |-> FALSE,   \* new IdleCheck(main_loop, minutes)
      registered    |-> FALSE,   \* handed to the payload by EnableIdleCheck()
      enabled       |-> FALSE,   \* Enable() called and Disable() not yet
      thread        |-> "none",  \* "none", "polling", "exited" or "joined"
      ticks         |-> 0,       \* consecutive polls that found the payload idle
      quits         |-> 0,       \* termination requests the thread has made
      signal_caught |-> FALSE ]  \* SIGINT/SIGTERM seen by IdleCheck

(***************************************************************************)
(* The statements of main() and of the command function, in source order.  *)
(* pc names the next one; "in_loop" is the inside of g_main_loop_run().    *)
(***************************************************************************)
\* The watchdog enabled before the payload's Setup().
ConfigmgrSteps_EnableBeforeSetup ==
    << "drop_root", "RunCommand", "loop_new", "idle_arg", "open_log",
       "connect", "payload", "attach", "log_level", "idle_check", "enable",
       "setup", "run", "in_loop", "unref", "detach", "disable", "join",
       "return", "done" >>

ConfigmgrSteps ==
    << "drop_root", "RunCommand", "loop_new", "idle_arg", "open_log",
       "connect", "payload", "attach", "log_level", "idle_check", "setup",
       "enable", "run", "in_loop", "unref", "detach", "disable", "join",
       "return", "done" >>

\* The log destination opened only after the privileges have been dropped.
NetcfgSteps_LogAfterDrop ==
    << "RunCommand", "root_check", "capng_clear", "capng_update",
       "drop_root_ng", "capng_apply", "open_log", "idle_arg", "connect",
       "attach", "payload", "log_level", "loop_new", "idle_check", "setup",
       "enable", "run", "in_loop", "unref", "detach", "disable", "join",
       "return", "done" >>

NetcfgSteps ==
    << "RunCommand", "root_check", "open_log", "capng_clear", "capng_update",
       "drop_root_ng", "capng_apply", "idle_arg", "connect", "attach",
       "payload", "log_level", "loop_new", "idle_check", "setup", "enable",
       "run", "in_loop", "unref", "detach", "disable", "join", "return",
       "done" >>

Steps(d) == IF d = "configmgr" THEN ConfigmgrSteps ELSE NetcfgSteps

\* The statement that follows p.
After(p) ==
    LET s == Steps(daemon)
    IN  s[(CHOOSE i \in 1..Len(s) : s[i] = p) + 1]

Init ==
    /\ daemon \in {"configmgr", "netcfg"}
    /\ debug_options \in (IF daemon = "netcfg" THEN BOOLEAN ELSE {FALSE})
    /\ started_as_root \in BOOLEAN
    \* configmgr never looks at the group id.
    /\ egid_root \in (IF daemon = "netcfg" THEN BOOLEAN ELSE {started_as_root})
    /\ args \in ArgSets(debug_options)
    /\ pc = Steps(daemon)[1]
    /\ trace = <<>>
    /\ outcome = "running"
    /\ exit_code = -1
    /\ thrown = NoException
    /\ identity = IF started_as_root THEN "root" ELSE "user"
    /\ ng_caps = {}
    /\ proc_caps = IF started_as_root THEN AllCaps ELSE {}
    /\ res = 0
    /\ idle_wait_min = ToUnsigned(0)
    /\ logfile = "null"
    /\ logwr = "null"
    /\ dbus = "none"
    /\ payload = "none"
    /\ payload_log_level = <<>>
    /\ logsrvprx = FALSE
    /\ main_loop = "null"
    /\ loop_is_running = FALSE
    /\ stop_handler = FALSE
    /\ idle_exit = NoIdleCheck
    /\ busy = FALSE
    /\ sig_pending = 0
    /\ signals_sent = 0
    /\ stop_calls = 0
    /\ ub = FALSE

Running == outcome = "running"

\* The main thread of daemon d is about to execute statement p.
At(d, p) == Running /\ daemon = d /\ pc = p

(***************************************************************************)
(* Exceptions.  Every exception class derives from std::exception;         *)
(* CommandException derives from CommandArgBaseException.                  *)
(***************************************************************************)
IsA(kind, base) ==
    \/ kind = base
    \/ base = "std::exception"
    \/ kind = "CommandException" /\ base = "CommandArgBaseException"

Uncaught == -1

\* The handler for LogServiceProxyException left out.
ConfigmgrMainCatch_NoProxyHandler(kind) ==
    IF IsA(kind, "CommandArgBaseException") THEN 2 ELSE Uncaught

\* configmgr main(): the catch clauses after the try block.
ConfigmgrMainCatch(kind) ==
    IF IsA(kind, "LogServiceProxyException") THEN 2
    ELSE IF IsA(kind, "CommandArgBaseException") THEN 2
    ELSE Uncaught

\* The handler returning main()'s usage-error code.
NetcfgMainCatch_Returns2(kind) ==
    IF IsA(kind, "std::exception") THEN 2 ELSE Uncaught

\* netcfg_main(): catch (std::exception& excp) of the try block.
NetcfgMainCatch(kind) ==
    IF IsA(kind, "std::exception") THEN 3 ELSE Uncaught

\* The handler returning netcfg_main()'s fatal-error code.
NetcfgCatch_Returns3(kind) ==
    IF IsA(kind, "CommandException") THEN 3 ELSE Uncaught

\* netcfg main(): catch (CommandException& excp).
NetcfgCatch(kind) ==
    IF IsA(kind, "CommandException") THEN 2 ELSE Uncaught

\* The value main() returns for an exception of this kind thrown at a place
\* inside (in_try) or outside netcfg_main's try block; Uncaught if no
\* handler matches.
HandlerCode(d, kind, in_try) ==
    IF d = "configmgr" THEN ConfigmgrMainCatch(kind)
    ELSE IF in_try /\ NetcfgMainCatch(kind) # Uncaught
         THEN NetcfgMainCatch(kind)
    ELSE NetcfgCatch(kind)

\* An exception leaves the command function.  With a matching handler the
\* stack is unwound: the locals are destroyed, the DBus object among them,
\* and main() returns the handler's code.  Without one std::terminate() ends
\* the process, and whether the stack is unwound first is up to the build.
\* Nothing on this path calls Disable() or Join(), and main_loop is a raw
\* pointer that no destructor unrefs.
Raise(kind, at, in_try, tr) ==
    LET code == HandlerCode(daemon, kind, in_try)
    IN  /\ pc' = "done"
        /\ outcome' = IF code = Uncaught THEN "terminated" ELSE "exited"
        /\ exit_code' = IF code = Uncaught THEN exit_code ELSE code
        /\ thrown' = [kind |-> kind, at |-> at]
        /\ \E unwound \in (IF code = Uncaught THEN BOOLEAN ELSE {TRUE}) :
              IF unwound /\ dbus = "connected"
              THEN dbus' = "released" /\ trace' = Append(tr, "dbus_release")
              ELSE dbus' = dbus /\ trace' = tr
        /\ payload' = payload

\* A call that returns: it is recorded and the next statement follows.
Returned(call) ==
    /\ trace' = Append(trace, call)
    /\ pc' = After(pc)
    /\ UNCHANGED <<outcome, exit_code, thrown>>

\* A statement that makes no recorded call.
Skip ==
    /\ pc' = After(pc)
    /\ UNCHANGED <<trace, outcome, exit_code, thrown>>

(***************************************************************************)
(* IdleCheck (dbus/idlecheck.hpp)                                          *)
(***************************************************************************)
IdleCheck_New == [NoIdleCheck EXCEPT !.constructed = TRUE]

IdleCheck_Enable(ic) ==
    IF ic.enabled THEN ic
    ELSE [ic EXCEPT !.enabled = TRUE, !.thread = "polling"]

IdleCheck_Disable(ic) == [ic EXCEPT !.enabled = FALSE]

\* Join() returns once the poll thread has exited.
IdleCheck_CanJoin(ic) == ic.thread = "exited"

IdleCheck_Join(ic) == [ic EXCEPT !.thread = "joined"]

PollsPerMinute ==
    IF daemon = "netcfg" THEN NetcfgPollsPerMinute ELSE CfgmgrPollsPerMinute

\* The payload has been idle for the whole threshold after `ticks` idle polls.
ThresholdReached(ticks) ==
    idle_wait_min.hi = 0 /\ ticks >= idle_wait_min.lo * PollsPerMinute

(***************************************************************************)
(* Steps shared by the two daemons                                         *)
(***************************************************************************)
\* "Open a log destination, if requested": the value of logfile afterwards.
OpenLogFile(a) ==
    IF ~Present(a.log_file) THEN "null"
    ELSE IF GetValue(a.log_file, 0) # "stdout:" THEN "logfs"
    ELSE "cout"

\* ... and of logwr.
OpenLogWriter(a) ==
    IF ~Present(a.log_file) THEN "null"
    ELSE IF a.colour THEN "colour"
    ELSE "stream"

DefaultIdle(d) == IF d = "configmgr" THEN CfgmgrDefaultIdle ELSE NetcfgDefaultIdle

\* idle_wait_min after the idle-exit option has been read.
IdleWaitMin(a, default) ==
    IF Present(a.idle_exit)
    THEN ToUnsigned(Atoi(GetValue(a.idle_exit, 0)))
    ELSE ToUnsigned(default)

\* log_level after the log-level option has been read.
LogLevel(a, default) ==
    IF Present(a.log_level)
    THEN Atoi(GetValue(a.log_level, 0))
    ELSE default

\* The payload's log-level setter is called with lvl.
SetLogLevel(lvl) ==
    /\ payload_log_level' = Append(payload_log_level, ToUnsigned(lvl))
    /\ Returned("SetLogLevel")

\* The log service is attached to whatever the signalling mode.
ShouldAttach_Always(a) == TRUE

\* if (!signal_broadcast)
ShouldAttach(a) == ~a.signal_broadcast

\* SingleCommand::RunCommand(): a command line it cannot parse is reported
\* with a CommandException, otherwise the command function is called.
RunCommand ==
    IF args.usage_error
    THEN Raise("CommandException", "RunCommand", FALSE, trace)
    ELSE Skip /\ UNCHANGED <<dbus, payload>>

OpenLog ==
    /\ logfile' = OpenLogFile(args)
    /\ logwr' = OpenLogWriter(args)
    /\ IF Present(args.log_file) THEN Returned("open_log") ELSE Skip

\* DBus dbus(G_BUS_TYPE_SYSTEM); dbus.Connect();
Connect(in_try) ==
    \E r \in {"ok", "DBusException"} :
       IF r = "ok"
       THEN dbus' = "connected" /\ Returned("Connect") /\ UNCHANGED payload
       ELSE Raise(r, "Connect", in_try, Append(trace, "Connect"))

\* The payload service object is constructed on the connection.
PayloadNew(in_try) ==
    \E r \in {"ok", "DBusException"} :
       IF r = "ok"
       THEN payload' = "constructed" /\ Returned("payload_new")
            /\ UNCHANGED dbus
       ELSE Raise(r, "payload_new", in_try, Append(trace, "payload_new"))

\* LogServiceProxy::AttachInterface() / new LogServiceProxy + Attach().
Attach(in_try) ==
    IF ShouldAttach(args)
    THEN \E r \in {"ok", "LogServiceProxyException"} :
            IF r = "ok"
            THEN logsrvprx' = TRUE /\ Returned("Attach")
                 /\ UNCHANGED <<dbus, payload>>
            ELSE Raise(r, "Attach", in_try, Append(trace, "Attach"))
                 /\ UNCHANGED logsrvprx
    ELSE Skip /\ UNCHANGED <<dbus, payload, logsrvprx>>

\* Setup() of the payload service registers it on the bus.
Setup(in_try) ==
    \E r \in {"ok", "DBusException"} :
       IF r = "ok"
       THEN payload' = "setup" /\ Returned("Setup") /\ UNCHANGED dbus
       ELSE Raise(r, "Setup", in_try, Append(trace, "Setup"))

\* The watchdog constructed but never started.
Enable_Forgotten == Skip /\ UNCHANGED idle_exit

\* if (idle_wait_min > 0) idle_exit->Enable();
Enable ==
    IF UPositive(idle_wait_min)
    THEN idle_exit' = IdleCheck_Enable(idle_exit) /\ Returned("Enable")
    ELSE Skip /\ UNCHANGED idle_exit

\* g_main_loop_run(main_loop): entering sets is_running ...
LoopRun ==
    /\ loop_is_running' = TRUE
    /\ Returned("g_main_loop_run")

\* ... and it returns once is_running has been cleared.
LoopReturn ==
    /\ ~loop_is_running
    /\ Returned("loop_returned")

\* g_main_loop_unref(main_loop): the only reference, so the loop is freed.
LoopUnref ==
    /\ main_loop' = "freed"
    /\ Returned("g_main_loop_unref")

\* if (logsrvprx) logsrvprx->Detach(interface);
Detach(in_try) ==
    IF logsrvprx
    THEN \E r \in {"ok", "LogServiceProxyException"} :
            IF r = "ok"
            THEN Returned("Detach") /\ UNCHANGED <<dbus, payload>>
            ELSE Raise(r, "Detach", in_try, Append(trace, "Detach"))
    ELSE Skip /\ UNCHANGED <<dbus, payload>>

\* if (idle_wait_min > 0) { idle_exit->Disable(); ...
Disable ==
    IF UPositive(idle_wait_min)
    THEN idle_exit' = IdleCheck_Disable(idle_exit) /\ Returned("Disable")
    ELSE /\ pc' = After("join")
         /\ UNCHANGED <<idle_exit, trace, outcome, exit_code, thrown>>

\* ... idle_exit->Join(); }
Join ==
    /\ IdleCheck_CanJoin(idle_exit)
    /\ idle_exit' = IdleCheck_Join(idle_exit)
    /\ Returned("Join")

\* return 0; the locals go out of scope, dbus among them.
Return0 ==
    /\ dbus' = "released"
    /\ trace' = Append(trace, "dbus_release")
    /\ outcome' = "exited"
    /\ exit_code' = 0
    /\ pc' = After(pc)
    /\ UNCHANGED thrown

(***************************************************************************)
(* openvpn3-service-configmgr: main() and config_manager()                 *)
(***************************************************************************)
\* drop_root() (common/utils.hpp): a process running as root switches to the
\* openvpn user and group and keeps no capability; any other process is left
\* as it is.
DropRootIdentity(id) == IF id = "root" THEN "openvpn" ELSE id

DropRootCaps(id, caps) == IF id = "root" THEN {} ELSE caps

\* main(): drop_root();
CM_DropRoot ==
    /\ At("configmgr", "drop_root")
    /\ \E r \in {"ok", "std::runtime_error"} :
          IF r = "ok" \/ identity # "root"
          THEN /\ identity' = DropRootIdentity(identity)
               /\ proc_caps' = DropRootCaps(identity, proc_caps)
               /\ Returned("drop_root")
               /\ UNCHANGED <<dbus, payload>>
          ELSE /\ Raise(r, "drop_root", FALSE, Append(trace, "drop_root"))
               /\ UNCHANGED <<identity, proc_caps>>
    /\ UNCHANGED <<inputs, ng_caps, res, idle_wait_min, logv,
                   payload_log_level, logsrvprx, loopv, idle_exit, envv>>

CM_RunCommand ==
    /\ At("configmgr", "RunCommand")
    /\ RunCommand
    /\ UNCHANGED <<inputs, priv, idle_wait_min, logv, payload_log_level,
                   logsrvprx, loopv, idle_exit, envv>>

\* GMainLoop *main_loop = g_main_loop_new(NULL, FALSE);
CM_LoopNew ==
    /\ At("configmgr", "loop_new")
    /\ main_loop' = "alive"
    /\ loop_is_running' = FALSE
    /\ Returned("g_main_loop_new")
    /\ UNCHANGED <<inputs, priv, idle_wait_min, logv, dbus, payload,
                   payload_log_level, logsrvprx, stop_handler, idle_exit,
                   envv>>

CM_IdleArg ==
    /\ At("configmgr", "idle_arg")
    /\ idle_wait_min' = IdleWaitMin(args, CfgmgrDefaultIdle)
    /\ Skip
    /\ UNCHANGED <<inputs, priv, logv, dbus, payload, payload_log_level,
                   logsrvprx, loopv, idle_exit, envv>>

CM_OpenLog ==
    /\ At("configmgr", "open_log")
    /\ OpenLog
    /\ UNCHANGED <<inputs, priv, idle_wait_min, dbus, payload,
                   payload_log_level, logsrvprx, loopv, idle_exit, envv>>

CM_Connect ==
    /\ At("configmgr", "connect")
    /\ Connect(FALSE)
    /\ UNCHANGED <<inputs, priv, idle_wait_min, logv, payload_log_level,
                   logsrvprx, loopv, idle_exit, envv>>

\* ConfigManagerDBus cfgmgr(dbus.GetConnection(), logwr.get(), signal_broadcast);
CM_Payload ==
    /\ At("configmgr", "payload")
    /\ PayloadNew(FALSE)
    /\ UNCHANGED <<inputs, priv, idle_wait_min, logv, payload_log_level,
                   logsrvprx, loopv, idle_exit, envv>>

\* logsrvprx = LogServiceProxy::AttachInterface(dbus.GetConnection(), ...)
CM_Attach ==
    /\ At("configmgr", "attach")
    /\ Attach(FALSE)
    /\ UNCHANGED <<inputs, priv, idle_wait_min, logv, payload_log_level,
                   loopv, idle_exit, envv>>

\* unsigned int log_level = 3; if (args->Present("log-level")) {...}
\* cfgmgr.SetLogLevel(log_level);
CM_LogLevel ==
    /\ At("configmgr", "log_level")
    /\ SetLogLevel(LogLevel(args, CfgmgrDefaultLogLevel))
    /\ UNCHANGED <<inputs, priv, idle_wait_min, logv, dbus, payload,
                   logsrvprx, loopv, idle_exit, envv>>

\* IdleCheck::Ptr idle_exit; if (idle_wait_min > 0) {...} else {...}
CM_IdleCheck ==
    /\ At("configmgr", "idle_check")
    /\ IF UPositive(idle_wait_min)
       THEN /\ idle_exit' = [IdleCheck_New EXCEPT !.registered = TRUE]
            /\ trace' = trace \o <<"IdleCheck_new", "EnableIdleCheck">>
            /\ UNCHANGED stop_handler
       ELSE /\ stop_handler' = TRUE
            /\ trace' = Append(trace, "g_unix_signal_add")
            /\ UNCHANGED idle_exit
    /\ pc' = After(pc)
    /\ UNCHANGED <<inputs, outcome, exit_code, thrown, priv, idle_wait_min,
                   logv, dbus, payload, payload_log_level, logsrvprx,
                   main_loop, loop_is_running, envv>>

CM_Setup ==
    /\ At("configmgr", "setup")
    /\ Setup(FALSE)
    /\ UNCHANGED <<inputs, priv, idle_wait_min, logv, payload_log_level,
                   logsrvprx, loopv, idle_exit, envv>>

CM_Enable ==
    /\ At("configmgr", "enable")
    /\ Enable
    /\ UNCHANGED <<inputs, priv, idle_wait_min, logv, dbus, payload,
                   payload_log_level, logsrvprx, loopv, envv>>

CM_LoopRun ==
    /\ At("configmgr", "run")
    /\ LoopRun
    /\ UNCHANGED <<inputs, priv, idle_wait_min, logv, dbus, payload,
                   payload_log_level, logsrvprx, main_loop, stop_handler,
                   idle_exit, envv>>

CM_LoopReturn ==
    /\ At("configmgr", "in_loop")
    /\ LoopReturn
    /\ UNCHANGED <<inputs, priv, idle_wait_min, logv, dbus, payload,
                   payload_log_level, logsrvprx, loopv, idle_exit, envv>>

CM_LoopUnref ==
    /\ At("configmgr", "unref")
    /\ LoopUnref
    /\ UNCHANGED <<inputs, priv, idle_wait_min, logv, dbus, payload,
                   payload_log_level, logsrvprx, loop_is_running,
                   stop_handler, idle_exit, envv>>

CM_Detach ==
    /\ At("configmgr", "detach")
    /\ Detach(FALSE)
    /\ UNCHANGED <<inputs, priv, idle_wait_min, logv, payload_log_level,
                   logsrvprx, loopv, idle_exit, envv>>

CM_Disable ==
    /\ At("configmgr", "disable")
    /\ Disable
    /\ UNCHANGED <<inputs, priv, idle_wait_min, logv, dbus, payload,
                   payload_log_level, logsrvprx, loopv, envv>>

CM_Join ==
    /\ At("configmgr", "join")
    /\ Join
    /\ UNCHANGED <<inputs, priv, idle_wait_min, logv, dbus, payload,
                   payload_log_level, logsrvprx, loopv, envv>>

CM_Return ==
    /\ At("configmgr", "return")
    /\ Return0
    /\ UNCHANGED <<inputs, priv, idle_wait_min, logv, payload,
                   payload_log_level, logsrvprx, loopv, idle_exit, envv>>

(***************************************************************************)
(* openvpn3-service-netcfg: main(), netcfg_main() and drop_root_ng()       *)
(***************************************************************************)
\* The values capng_change_id() returns: 0, or a negative error number.
ChangeIdResults == {0, -1, -6}

\* The result of capng_change_id() not looked at.
ChangeIdFailed_Ignored(r) == FALSE

\* if (0 != res)
ChangeIdFailed(r) == 0 # r

\* No capability is retained, whatever the build and the command line.
DisableCapabilities_Always == TRUE

\* #ifdef DEBUG_OPTIONS: args.Present("disable-capabilities")
DisableCapabilities == debug_options /\ args.disable_capabilities

\* The process stays root, whatever the build and the command line.
RunAsRoot_Always == TRUE

\* #ifdef DEBUG_OPTIONS: args.Present("run-as-root")
RunAsRoot == debug_options /\ args.run_as_root

NC_RunCommand ==
    /\ At("netcfg", "RunCommand")
    /\ RunCommand
    /\ UNCHANGED <<inputs, priv, idle_wait_min, logv, payload_log_level,
                   logsrvprx, loopv, idle_exit, envv>>

\* The check of the effective ids left out.
NotRoot_Unchecked == FALSE

\* 0 != getegid() || 0 != geteuid()
NotRoot == ~egid_root \/ ~started_as_root

\* if (0 != getegid() || 0 != geteuid()) throw CommandException(...)
NC_RootCheck ==
    /\ At("netcfg", "root_check")
    /\ IF NotRoot
       THEN Raise("CommandException", "root_check", FALSE, trace)
       ELSE Skip /\ UNCHANGED <<dbus, payload>>
    /\ UNCHANGED <<inputs, priv, idle_wait_min, logv, payload_log_level,
                   logsrvprx, loopv, idle_exit, envv>>

NC_OpenLog ==
    /\ At("netcfg", "open_log")
    /\ OpenLog
    /\ UNCHANGED <<inputs, priv, idle_wait_min, dbus, payload,
                   payload_log_level, logsrvprx, loopv, idle_exit, envv>>

\* capng_clear(CAPNG_SELECT_BOTH);
NC_CapngClear ==
    /\ At("netcfg", "capng_clear")
    /\ ng_caps' = {}
    /\ Returned("capng_clear")
    /\ UNCHANGED <<inputs, identity, proc_caps, res, idle_wait_min, logv,
                   dbus, payload, payload_log_level, logsrvprx, loopv,
                   idle_exit, envv>>

\* capng_update(CAPNG_ADD, CAPNG_EFFECTIVE|CAPNG_PERMITTED, CAP_NET_ADMIN),
\* skipped by --disable-capabilities in a DEBUG_OPTIONS build.
NC_CapngUpdate ==
    /\ At("netcfg", "capng_update")
    /\ IF DisableCapabilities
       THEN Skip /\ UNCHANGED ng_caps
       ELSE /\ ng_caps' = ng_caps \cup {"CAP_NET_ADMIN"}
            /\ Returned("capng_update")
    /\ UNCHANGED <<inputs, identity, proc_caps, res, idle_wait_min, logv,
                   dbus, payload, payload_log_level, logsrvprx, loopv,
                   idle_exit, envv>>

\* drop_root_ng(), skipped by --run-as-root in a DEBUG_OPTIONS build:
\* capng_change_id(uid, gid, CAPNG_DROP_SUPP_GRP | CAPNG_CLEAR_BOUNDING)
\* switches to openvpn/openvpn keeping the working capability state, and a
\* result other than 0 throws CommandException.
NC_DropRootNg ==
    /\ At("netcfg", "drop_root_ng")
    /\ IF RunAsRoot
       THEN Skip /\ UNCHANGED <<dbus, payload, identity, proc_caps, res>>
       ELSE \E r \in ChangeIdResults :
               /\ res' = r
               /\ IF ChangeIdFailed(r)
                  THEN /\ Raise("CommandException", "capng_change_id", FALSE,
                                Append(trace, "capng_change_id"))
                       /\ UNCHANGED <<identity, proc_caps>>
                  ELSE /\ identity' = IF r = 0 THEN "openvpn" ELSE identity
                       /\ proc_caps' = IF r = 0 THEN ng_caps ELSE proc_caps
                       /\ Returned("capng_change_id")
                       /\ UNCHANGED <<dbus, payload>>
    /\ UNCHANGED <<inputs, ng_caps, idle_wait_min, logv, payload_log_level,
                   logsrvprx, loopv, idle_exit, envv>>

\* capng_apply(CAPNG_SELECT_BOTH);
NC_CapngApply ==
    /\ At("netcfg", "capng_apply")
    /\ proc_caps' = ng_caps
    /\ Returned("capng_apply")
    /\ UNCHANGED <<inputs, identity, ng_caps, res, idle_wait_min, logv, dbus,
                   payload, payload_log_level, logsrvprx, loopv, idle_exit,
                   envv>>

NC_IdleArg ==
    /\ At("netcfg", "idle_arg")
    /\ idle_wait_min' = IdleWaitMin(args, NetcfgDefaultIdle)
    /\ Skip
    /\ UNCHANGED <<inputs, priv, logv, dbus, payload, payload_log_level,
                   logsrvprx, loopv, idle_exit, envv>>

NC_Connect ==
    /\ At("netcfg", "connect")
    /\ Connect(TRUE)
    /\ UNCHANGED <<inputs, priv, idle_wait_min, logv, payload_log_level,
                   logsrvprx, loopv, idle_exit, envv>>

\* logservice.reset(new LogServiceProxy(dbus.GetConnection()));
\* logservice->Attach(OpenVPN3DBus_interf_netcfg);
NC_Attach ==
    /\ At("netcfg", "attach")
    /\ Attach(TRUE)
    /\ UNCHANGED <<inputs, priv, idle_wait_min, logv, payload_log_level,
                   loopv, idle_exit, envv>>

\* NetworkCfgService netcfgsrv(dbus.GetConnection(), resolver.get(), logwr.get());
NC_Payload ==
    /\ At("netcfg", "payload")
    /\ PayloadNew(TRUE)
    /\ UNCHANGED <<inputs, priv, idle_wait_min, logv, payload_log_level,
                   logsrvprx, loopv, idle_exit, envv>>

\* if (log_level > 0)
LogLevelGiven(lvl) == lvl > 0

\* int log_level = -1; if (args.Present("log-level")) {...}  and, after the
\* payload has been constructed,
\* if (log_level > 0) netcfgsrv.SetDefaultLogLevel(log_level);
NC_LogLevel ==
    /\ At("netcfg", "log_level")
    /\ LET log_level == LogLevel(args, NetcfgNoLogLevel)
       IN  IF LogLevelGiven(log_level)
           THEN SetLogLevel(log_level)
           ELSE Skip /\ UNCHANGED payload_log_level
    /\ UNCHANGED <<inputs, priv, idle_wait_min, logv, dbus, payload,
                   logsrvprx, loopv, idle_exit, envv>>

\* GMainLoop *main_loop = g_main_loop_new(NULL, FALSE);
\* g_unix_signal_add(SIGINT, ...); g_unix_signal_add(SIGTERM, ...);
NC_LoopNew ==
    /\ At("netcfg", "loop_new")
    /\ main_loop' = "alive"
    /\ loop_is_running' = FALSE
    /\ stop_handler' = TRUE
    /\ trace' = trace \o <<"g_main_loop_new", "g_unix_signal_add">>
    /\ pc' = After(pc)
    /\ UNCHANGED <<inputs, outcome, exit_code, thrown, priv, idle_wait_min,
                   logv, dbus, payload, payload_log_level, logsrvprx,
                   idle_exit, envv>>

\* if (idle_wait_min > 0) { idle_exit.reset(new IdleCheck(...));
\*     idle_exit->SetPollTime(...); netcfgsrv.EnableIdleCheck(idle_exit); }
NC_IdleCheck ==
    /\ At("netcfg", "idle_check")
    /\ IF UPositive(idle_wait_min)
       THEN /\ idle_exit' = [IdleCheck_New EXCEPT !.registered = TRUE]
            /\ trace' = trace \o <<"IdleCheck_new", "EnableIdleCheck">>
       ELSE UNCHANGED <<idle_exit, trace>>
    /\ pc' = After(pc)
    /\ UNCHANGED <<inputs, outcome, exit_code, thrown, priv, idle_wait_min,
                   logv, dbus, payload, payload_log_level, logsrvprx, loopv,
                   envv>>

NC_Setup ==
    /\ At("netcfg", "setup")
    /\ Setup(TRUE)
    /\ UNCHANGED <<inputs, priv, idle_wait_min, logv, payload_log_level,
                   logsrvprx, loopv, idle_exit, envv>>

NC_Enable ==
    /\ At("netcfg", "enable")
    /\ Enable
    /\ UNCHANGED <<inputs, priv, idle_wait_min, logv, dbus, payload,
                   payload_log_level, logsrvprx, loopv, envv>>

NC_LoopRun ==
    /\ At("netcfg", "run")
    /\ LoopRun
    /\ UNCHANGED <<inputs, priv, idle_wait_min, logv, dbus, payload,
                   payload_log_level, logsrvprx, main_loop, stop_handler,
                   idle_exit, envv>>

NC_LoopReturn ==
    /\ At("netcfg", "in_loop")
    /\ LoopReturn
    /\ UNCHANGED <<inputs, priv, idle_wait_min, logv, dbus, payload,
                   payload_log_level, logsrvprx, loopv, idle_exit, envv>>

\* usleep(500); g_main_loop_unref(main_loop);
NC_LoopUnref ==
    /\ At("netcfg", "unref")
    /\ LoopUnref
    /\ UNCHANGED <<inputs, priv, idle_wait_min, logv, dbus, payload,
                   payload_log_level, logsrvprx, loop_is_running,
                   stop_handler, idle_exit, envv>>

NC_Detach ==
    /\ At("netcfg", "detach")
    /\ Detach(TRUE)
    /\ UNCHANGED <<inputs, priv, idle_wait_min, logv, payload_log_level,
                   logsrvprx, loopv, idle_exit, envv>>

NC_Disable ==
    /\ At("netcfg", "disable")
    /\ Disable
    /\ UNCHANGED <<inputs, priv, idle_wait_min, logv, dbus, payload,
                   payload_log_level, logsrvprx, loopv, envv>>

NC_Join ==
    /\ At("netcfg", "join")
    /\ Join
    /\ UNCHANGED <<inputs, priv, idle_wait_min, logv, dbus, payload,
                   payload_log_level, logsrvprx, loopv, envv>>

\* The try block ends, its locals (dbus among them) go out of scope; return 0.
NC_Return ==
    /\ At("netcfg", "return")
    /\ Return0
    /\ UNCHANGED <<inputs, priv, idle_wait_min, logv, payload,
                   payload_log_level, logsrvprx, loopv, idle_exit, envv>>

(***************************************************************************)
(* The event loop's signal source, the IdleCheck poll thread, the payload  *)
(* and the environment                                                     *)
(***************************************************************************)
InLoop == pc = "in_loop"

\* The main thread is inside a call that takes time: the event loop, the
\* synchronous Detach call to the log service, or Join().  The poll thread
\* sleeps a whole poll interval between two checks, so a check only falls
\* into such a call, never between two consecutive statements.
Blocked ==
    \/ InLoop
    \/ pc = "detach" /\ logsrvprx
    \/ pc = "join"

\* The poll thread calls g_main_loop_quit(mainloop) through the pointer it
\* was constructed with.  On a live loop that clears is_running.  On a
\* freed loop it is a use after free: the call may go unnoticed or crash
\* the process.
ThreadQuit ==
    IF main_loop = "freed"
    THEN /\ ub' = TRUE
         /\ outcome' \in {"running", "crashed"}
         /\ UNCHANGED loop_is_running
    ELSE /\ loop_is_running' = FALSE
         /\ UNCHANGED <<ub, outcome>>

\* One check of the poll thread: a busy payload restarts the idle period,
\* an idle one extends it, and once it spans the threshold the thread asks
\* the loop to stop, once, and stops polling.
WD_Poll ==
    /\ Running /\ idle_exit.thread = "polling" /\ idle_exit.enabled
    /\ ~idle_exit.signal_caught
    /\ Blocked
    /\ IF busy
       THEN /\ idle_exit' = [idle_exit EXCEPT !.ticks = 0]
            /\ UNCHANGED <<ub, outcome, loop_is_running>>
       ELSE /\ idle_exit.ticks < MaxPollTicks
            /\ IF ThresholdReached(idle_exit.ticks + 1)
               THEN /\ idle_exit' = [idle_exit EXCEPT !.ticks = @ + 1,
                                                      !.quits = @ + 1,
                                                      !.thread = "exited"]
                    /\ ThreadQuit
               ELSE /\ idle_exit' = [idle_exit EXCEPT !.ticks = @ + 1]
                    /\ UNCHANGED <<ub, outcome, loop_is_running>>
    /\ UNCHANGED <<inputs, pc, trace, exit_code, thrown, priv, idle_wait_min,
                   logv, dbus, payload, payload_log_level, logsrvprx,
                   main_loop, stop_handler, busy, sig_pending, signals_sent,
                   stop_calls>>

\* The poll thread finds that IdleCheck caught SIGINT or SIGTERM: it asks
\* the loop to stop and ends.
WD_Signal ==
    /\ Running /\ idle_exit.thread = "polling" /\ idle_exit.enabled
    /\ idle_exit.signal_caught
    /\ Blocked
    /\ idle_exit' = [idle_exit EXCEPT !.quits = @ + 1, !.thread = "exited"]
    /\ ThreadQuit
    /\ UNCHANGED <<inputs, pc, trace, exit_code, thrown, priv, idle_wait_min,
                   logv, dbus, payload, payload_log_level, logsrvprx,
                   main_loop, stop_handler, busy, sig_pending, signals_sent,
                   stop_calls>>

\* The poll thread finds itself disabled and ends without a request.
WD_Stop ==
    /\ Running /\ idle_exit.thread = "polling" /\ ~idle_exit.enabled
    /\ idle_exit' = [idle_exit EXCEPT !.thread = "exited"]
    /\ UNCHANGED <<inputs, pc, trace, outcome, exit_code, thrown, priv,
                   idle_wait_min, logv, dbus, payload, payload_log_level,
                   logsrvprx, loopv, envv>>

\* The loop dispatches a pending SIGINT/SIGTERM source:
\* stop_handler(main_loop) calls g_main_loop_quit(main_loop).
StopHandler ==
    /\ Running /\ InLoop /\ stop_handler /\ sig_pending > 0
    /\ loop_is_running' = FALSE
    /\ sig_pending' = sig_pending - 1
    /\ stop_calls' = stop_calls + 1
    /\ UNCHANGED <<inputs, pc, trace, outcome, exit_code, thrown, priv,
                   idle_wait_min, logv, dbus, payload, payload_log_level,
                   logsrvprx, main_loop, stop_handler, idle_exit, busy,
                   signals_sent, ub>>

\* Who sees a signal: the loop's signal source once g_unix_signal_add() has
\* run, IdleCheck once it exists.
SignalReceivers ==
    (IF stop_handler THEN {"loop"} ELSE {}) \cup
    (IF idle_exit.constructed THEN {"idlecheck"} ELSE {})

\* SIGINT or SIGTERM arrives.  With nobody handling it, the default action
\* ends the process at once.
Signal ==
    /\ Running /\ signals_sent < MaxSignals
    /\ signals_sent' = signals_sent + 1
    /\ IF SignalReceivers = {}
       THEN /\ outcome' = "killed"
            /\ UNCHANGED <<sig_pending, idle_exit>>
       ELSE /\ \E to \in (SUBSET SignalReceivers) \ {{}} :
                 /\ sig_pending' = IF "loop" \in to THEN sig_pending + 1
                                   ELSE sig_pending
                 /\ idle_exit' = IF "idlecheck" \in to
                                 THEN [idle_exit EXCEPT !.signal_caught = TRUE]
                                 ELSE idle_exit
            /\ UNCHANGED outcome
    /\ UNCHANGED <<inputs, pc, trace, exit_code, thrown, priv, idle_wait_min,
                   logv, dbus, payload, payload_log_level, logsrvprx, loopv,
                   busy, stop_calls, ub>>

\* A client call served by the loop creates the first, or removes the last,
\* object the payload holds.
PayloadActivity ==
    /\ Running /\ InLoop /\ loop_is_running
    /\ busy' = ~busy
    /\ UNCHANGED <<inputs, pc, trace, outcome, exit_code, thrown, priv,
                   idle_wait_min, logv, dbus, payload, payload_log_level,
                   logsrvprx, loopv, idle_exit, sig_pending, signals_sent,
                   stop_calls, ub>>

(***************************************************************************)
(* Specification                                                           *)
(***************************************************************************)
MainThread ==
    \/ CM_DropRoot \/ CM_RunCommand \/ CM_LoopNew \/ CM_IdleArg \/ CM_OpenLog
    \/ CM_Connect \/ CM_Payload \/ CM_Attach \/ CM_LogLevel \/ CM_IdleCheck
    \/ CM_Setup
    \/ CM_Enable \/ CM_LoopRun \/ CM_LoopReturn \/ CM_LoopUnref \/ CM_Detach
    \/ CM_Disable \/ CM_Join \/ CM_Return
    \/ NC_RunCommand \/ NC_RootCheck \/ NC_OpenLog \/ NC_CapngClear
    \/ NC_CapngUpdate \/ NC_DropRootNg \/ NC_CapngApply \/ NC_IdleArg
    \/ NC_Connect \/ NC_Attach \/ NC_Payload \/ NC_LogLevel \/ NC_LoopNew
    \/ NC_IdleCheck
    \/ NC_Setup \/ NC_Enable \/ NC_LoopRun \/ NC_LoopReturn \/ NC_LoopUnref
    \/ NC_Detach \/ NC_Disable \/ NC_Join \/ NC_Return

PollThread == WD_Poll \/ WD_Signal \/ WD_Stop

Next ==
    \/ MainThread
    \/ PollThread
    \/ StopHandler
    \/ Signal
    \/ PayloadActivity

Spec == Init /\ [][Next]_vars

\* The processes whose idle-exit behaviour is followed to the end: release
\* builds started as root with a command line that parses and no log file.
LiveInit ==
    /\ Init
    /\ ~debug_options /\ started_as_root /\ egid_root
    /\ ~args.usage_error /\ ~Present(args.log_file)

\* Both threads are scheduled again and again, and a running loop
\* dispatches the signal source that is pending.
Fairness ==
    /\ WF_vars(MainThread)
    /\ WF_vars(PollThread)
    /\ WF_vars(StopHandler)

FairSpec == LiveInit /\ [][Next]_vars /\ Fairness

(***************************************************************************)
(* Reading the record of calls                                             *)
(***************************************************************************)
Pos(call) == { i \in DOMAIN trace : trace[i] = call }

Has(call) == Pos(call) # {}

Count(call) == Cardinality(Pos(call))

\* Every call a happened before every call b.
AllBefore(a, b) == \A i \in Pos(a), j \in Pos(b) : i < j

\* The call at place i changed, or set out to change, what the process may
\* do: the capng calls of netcfg, and drop_root() in a process that runs as
\* root.
PrivilegeChangeAt(i) ==
    \/ trace[i] \in {"capng_clear", "capng_update", "capng_change_id",
                     "capng_apply"}
    \/ trace[i] = "drop_root" /\ started_as_root

\* idle-exit is 0: the option, or without it the default, converts to 0.
IdleExitZero == IdleWaitMin(args, DefaultIdle(daemon)) = ToUnsigned(0)

\* The class of startup failure that ended the process.
FailureClass ==
    IF thrown.at \in {"root_check", "capng_change_id"} THEN "privilege"
    ELSE IF thrown.at = "Connect" THEN "bus"
    ELSE IF thrown.at = "RunCommand" THEN "usage"
    ELSE "other"

\* The exit code netcfg gives a failure of class c.
NetcfgClassCode(c) ==
    IF c = "bus" THEN HandlerCode("netcfg", "DBusException", TRUE)
    ELSE HandlerCode("netcfg", "CommandException", FALSE)

(***************************************************************************)
(* C1.  On every shutdown path, including an exception raised after the    *)
(* watchdog was enabled, an enabled watchdog has been disabled and joined  *)
(* before the DBus object is released.                                     *)
(* Fails: an exception thrown by Detach() unwinds past Disable()/Join().   *)
(***************************************************************************)
C1_WatchdogJoinedBeforeBusRelease ==
    (Has("Enable") /\ dbus = "released") =>
        /\ idle_exit.thread = "joined"
        /\ Has("Disable") /\ Has("Join")
        /\ AllBefore("Disable", "Join")
        /\ AllBefore("Join", "dbus_release")

(***************************************************************************)
(* C2.  The event loop object is never released while the poll thread,     *)
(* which holds a pointer to it, has not been joined.                       *)
(* Fails: g_main_loop_unref() comes before Disable() and Join().           *)
(***************************************************************************)
C2_LoopReleasedOnlyAfterJoin ==
    (main_loop = "freed" /\ idle_exit.thread # "none") =>
        idle_exit.thread = "joined"

(***************************************************************************)
(* C3.  netcfg: when capng_change_id() returns a non-zero status, the      *)
(* event loop is never started, no bus connection is made, no payload      *)
(* service is constructed and the process ends with a non-zero exit code.  *)
(***************************************************************************)
C3_RestrictFailureIsStartupFatal ==
    (daemon = "netcfg" /\ Has("capng_change_id") /\ res # 0) =>
        /\ outcome = "exited" /\ exit_code # 0
        /\ ~Has("g_main_loop_run") /\ ~loop_is_running /\ main_loop = "null"
        /\ ~Has("Connect") /\ dbus = "none"
        /\ ~Has("payload_new") /\ payload = "none"

C3_Witness ==
    daemon = "netcfg" /\ Has("capng_change_id") /\ res # 0 /\ outcome = "exited"

(***************************************************************************)
(* C4 as claimed.  In both daemons the log destination is opened before    *)
(* any privilege change.                                                   *)
(* Fails in configmgr: main() calls drop_root() before RunCommand(), and   *)
(* the log file is opened inside config_manager().                         *)
(***************************************************************************)
C4_LogOpenedBeforePrivilegeChange ==
    \A j \in Pos("open_log") : \A i \in 1..(j - 1) : ~PrivilegeChangeAt(i)

(***************************************************************************)
(* C4 as amended.  In netcfg the log destination is opened before any      *)
(* privilege change (capng_clear, capng_update, capng_change_id,           *)
(* capng_apply); in configmgr drop_root() has already run when the log     *)
(* destination is opened.                                                  *)
(***************************************************************************)
C4_LogOpenBeforeDropInNetcfgOnly ==
    /\ daemon = "netcfg" =>
          \A j \in Pos("open_log") : \A i \in 1..(j - 1) : ~PrivilegeChangeAt(i)
    /\ daemon = "configmgr" =>
          \A j \in Pos("open_log") : \E i \in 1..(j - 1) : trace[i] = "drop_root"

C4_Witness ==
    /\ daemon = "netcfg" /\ Has("open_log") /\ logfile = "logfs"
    /\ Has("capng_apply") /\ identity = "openvpn"

(***************************************************************************)
(* C5.  With idle-exit 0 no watchdog object is constructed, Enable(),      *)
(* Disable() and Join() are never called, a stop handler for SIGINT and    *)
(* SIGTERM is installed before the loop starts running, and only that      *)
(* handler, on a signal, stops the loop.                                   *)
(***************************************************************************)
C5_IdleExitZeroMeansNoWatchdog ==
    IdleExitZero =>
        /\ ~idle_exit.constructed /\ idle_exit.thread = "none"
        /\ ~Has("IdleCheck_new") /\ ~Has("Enable")
        /\ ~Has("Disable") /\ ~Has("Join")
        /\ idle_exit.quits = 0
        /\ Has("g_main_loop_run") =>
              /\ stop_handler /\ Has("g_unix_signal_add")
              /\ AllBefore("g_unix_signal_add", "g_main_loop_run")
        /\ (Has("g_main_loop_run") /\ ~loop_is_running) =>
              stop_calls >= 1 /\ signals_sent >= 1

C5_Witness ==
    /\ IdleExitZero /\ Has("loop_returned") /\ stop_calls = 1
    /\ outcome = "exited" /\ exit_code = 0

(***************************************************************************)
(* C6.  For every idle threshold t > 0 (here: every t the poll counter     *)
(* can reach): if from some time on the payload is never busy, the poll    *)
(* thread asks the loop to stop exactly once, the loop exits, teardown     *)
(* runs and the process stops; the thread never asks a second time, and    *)
(* when no signal was sent its request is the only one the loop received.  *)
(***************************************************************************)
IdleThresholdInBound ==
    LET t == IdleWaitMin(args, DefaultIdle(daemon))
    IN  /\ t.hi = 0 /\ t.lo > 0
        /\ t.lo * (IF daemon = "netcfg" THEN NetcfgPollsPerMinute
                                        ELSE CfgmgrPollsPerMinute)
              <= MaxPollTicks

C6_AskedOnce ==
    /\ idle_exit.quits <= 1
    /\ (Has("loop_returned") /\ signals_sent = 0) =>
          idle_exit.quits = 1 /\ stop_calls = 0
    /\ (outcome = "exited" /\ exit_code = 0 /\ Has("Enable")) =>
          idle_exit.thread = "joined"

C6_IdleTimeoutStopsTheProcess ==
    /\ []C6_AskedOnce
    /\ IdleThresholdInBound => (<>[](~busy) => <>(~Running))

C6_Witness ==
    /\ IdleThresholdInBound /\ signals_sent = 0 /\ idle_exit.quits = 1
    /\ idle_exit.thread = "joined" /\ outcome = "exited" /\ exit_code = 0

(***************************************************************************)
(* C7 as claimed.  A failure to attach to or detach from the log service   *)
(* is soft: after an attach failure the payload is still constructed,      *)
(* Setup() runs and the loop is entered; after a detach failure the        *)
(* watchdog is still disabled and joined and the process exits normally.   *)
(* Fails: both failures are exceptions that end the command function.      *)
(***************************************************************************)
C7_AttachDetachFailureIsSoft ==
    /\ thrown.at = "Attach" =>
          Has("payload_new") /\ Has("Setup") /\ Has("g_main_loop_run")
    /\ thrown.at = "Detach" =>
          /\ Has("Enable") => idle_exit.thread = "joined"
          /\ outcome = "exited" /\ exit_code = 0

(***************************************************************************)
(* C7 as amended.  A failure to attach to or detach from the log service   *)
(* is fatal in both daemons: it ends the process with exit code 2 in       *)
(* configmgr and 3 in netcfg; after an attach failure Setup() is not       *)
(* called and the loop is not entered, after a detach failure Disable()    *)
(* and Join() are not called.                                              *)
(***************************************************************************)
C7_AttachDetachFailureIsFatal ==
    LET code == IF daemon = "configmgr" THEN 2 ELSE 3
    IN  /\ thrown.at = "Attach" =>
              /\ outcome = "exited" /\ exit_code = code
              /\ ~Has("Setup") /\ ~Has("g_main_loop_run")
        /\ thrown.at = "Detach" =>
              /\ outcome = "exited" /\ exit_code = code
              /\ ~Has("Disable") /\ ~Has("Join")

C7_Witness ==
    thrown.at = "Detach" /\ Has("Enable") /\ daemon = "configmgr"

(***************************************************************************)
(* C8 as claimed.  In both daemons the exit code is 0 for an orderly       *)
(* shutdown, 2 for a usage error or a log-service attachment error, 3 for  *)
(* an exception raised by the bus connection, the payload constructor or   *)
(* Setup().                                                                *)
(* Fails: netcfg exits 3 on an attachment error; configmgr has no handler  *)
(* for the setup exceptions and never returns 3.                           *)
(***************************************************************************)
C8_ExitCodeByOutcomeClass ==
    /\ (outcome = "exited" /\ thrown = NoException) => exit_code = 0
    /\ thrown.at \in {"RunCommand", "Attach", "Detach"} =>
          outcome = "exited" /\ exit_code = 2
    /\ thrown.at \in {"Connect", "payload_new", "Setup"} =>
          outcome = "exited" /\ exit_code = 3

(***************************************************************************)
(* C8 as amended.  The exit code is 0 for an orderly shutdown in both      *)
(* daemons.  netcfg exits 2 for a CommandException thrown outside the try  *)
(* block of netcfg_main (usage error, not started as root, failed          *)
(* privilege drop) and 3 for every exception thrown inside it (bus         *)
(* connection, log-service attach or detach, payload constructor,          *)
(* Setup()).  configmgr exits 2 for a usage error or a log-service attach  *)
(* or detach error and never 3: an exception of the bus connection, the    *)
(* payload constructor or Setup() leaves main() uncaught.                  *)
(***************************************************************************)
C8_ExitCodePerDaemon ==
    /\ (outcome = "exited" /\ thrown = NoException) => exit_code = 0
    /\ daemon = "netcfg" =>
          /\ thrown.at \in {"RunCommand", "root_check", "capng_change_id"} =>
                outcome = "exited" /\ exit_code = 2
          /\ thrown.at \in {"Connect", "Attach", "payload_new", "Setup",
                            "Detach"} =>
                outcome = "exited" /\ exit_code = 3
    /\ daemon = "configmgr" =>
          /\ thrown.at \in {"RunCommand", "Attach", "Detach"} =>
                outcome = "exited" /\ exit_code = 2
          /\ thrown.at \in {"Connect", "payload_new", "Setup"} =>
                outcome = "terminated" /\ exit_code = -1
          /\ exit_code # 3

C8_Witness ==
    daemon = "netcfg" /\ thrown.at = "Attach" /\ exit_code = 3

(***************************************************************************)
(* C9 as claimed.  A privilege-restriction failure (or not being started   *)
(* as root), a bus-connection failure and a usage error never share an     *)
(* exit code: the code netcfg exits with for one class is not the code it  *)
(* gives another class.                                                    *)
(* Fails: the privilege failures and the usage error all exit with 2.      *)
(***************************************************************************)
C9_FailureClassesHaveDistinctCodes ==
    (daemon = "netcfg" /\ outcome = "exited"
        /\ FailureClass \in {"privilege", "bus", "usage"}) =>
        /\ exit_code # 0
        /\ \A c \in {"privilege", "bus", "usage"} \ {FailureClass} :
              exit_code # NetcfgClassCode(c)

(***************************************************************************)
(* C9 as amended.  In netcfg a bus-connection failure exits with 3, while  *)
(* a privilege-restriction failure, not being started as root and a usage  *)
(* error all exit with 2: the exit code tells a bus failure from the       *)
(* others, not a privilege failure from a usage error.                     *)
(***************************************************************************)
C9_OnlyBusFailureIsDistinct ==
    (daemon = "netcfg" /\ outcome = "exited") =>
        /\ FailureClass \in {"privilege", "usage"} => exit_code = 2
        /\ FailureClass = "bus" => exit_code = 3

C9_Witness ==
    /\ daemon = "netcfg" /\ outcome = "exited"
    /\ thrown.at = "capng_change_id" /\ exit_code = 2

(***************************************************************************)
(* C10.  With broadcast signalling neither an attach nor a detach call to  *)
(* the log service is made; without it detach is called at most once,      *)
(* only if the attach before it returned a proxy, and only after the       *)
(* event loop has exited.                                                  *)
(***************************************************************************)
C10_RelayCallsFollowSignallingMode ==
    /\ args.signal_broadcast => ~Has("Attach") /\ ~Has("Detach")
    /\ ~args.signal_broadcast =>
          /\ Count("Detach") <= 1
          /\ Has("Detach") =>
                /\ logsrvprx /\ Count("Attach") = 1
                /\ thrown.at # "Attach"
                /\ AllBefore("Attach", "Detach")
                /\ Has("loop_returned")
                /\ AllBefore("loop_returned", "Detach")

C10_Witness ==
    ~args.signal_broadcast /\ Has("Detach") /\ outcome = "exited" /\ exit_code = 0

(***************************************************************************)
(* C11.  Teardown runs in the fixed order: (1) Detach() from the log        *)
(* service if attached, (2) Disable() then Join() of an enabled watchdog,   *)
(* Join() exactly once and only after Disable(), (3) the release of the     *)
(* event loop and of the DBus object last; no later step comes before an    *)
(* earlier one.                                                             *)
(* Fails: g_main_loop_unref() is the first call after the loop returns,     *)
(* before Detach(), Disable() and Join().                                   *)
(***************************************************************************)
C11_TeardownInFixedOrder ==
    /\ Count("Join") <= 1
    /\ Has("Join") => Has("Disable")
    /\ AllBefore("Disable", "Join")
    /\ AllBefore("Detach", "Disable")
    /\ \A step \in {"Detach", "Disable", "Join"} :
          \A release \in {"g_main_loop_unref", "dbus_release"} :
             AllBefore(step, release)
    /\ (outcome = "exited" /\ exit_code = 0 /\ Has("Enable")) =>
          Count("Disable") = 1 /\ Count("Join") = 1

(***************************************************************************)
(* C12.  netcfg started without effective uid 0 and effective gid 0 ends    *)
(* with a non-zero exit code before any other bootstrap step: no log        *)
(* destination is opened, no capability call is made, the identity is not   *)
(* changed, no bus connection is made and the loop is never created or      *)
(* entered.                                                                 *)
(***************************************************************************)
C12_NotRootAbortsBeforeBootstrap ==
    (daemon = "netcfg" /\ ~(started_as_root /\ egid_root)) =>
        /\ trace = <<>>
        /\ logfile = "null" /\ logwr = "null"
        /\ ng_caps = {} /\ res = 0
        /\ identity = (IF started_as_root THEN "root" ELSE "user")
        /\ dbus = "none" /\ payload = "none" /\ ~logsrvprx
        /\ main_loop = "null" /\ ~loop_is_running /\ ~idle_exit.constructed
        /\ outcome \in {"running", "exited", "killed"}
        /\ outcome = "exited" => exit_code # 0 /\ exit_code # Uncaught
        /\ pc \in {"RunCommand", "root_check", "done"}

C12_Witness ==
    /\ daemon = "netcfg" /\ started_as_root /\ ~egid_root
    /\ Present(args.log_file) /\ ~args.usage_error
    /\ thrown.at = "root_check" /\ outcome = "exited" /\ exit_code = 2

\* A debug override of a DEBUG_OPTIONS build is in use.
DebugOverride == debug_options /\ (args.run_as_root \/ args.disable_capabilities)

\* The restriction step has been taken: drop_root() in configmgr,
\* capng_change_id() in netcfg.
RestrictionDone == Has("drop_root") \/ Has("capng_change_id")

\* The capabilities the restricted identity may hold.
RestrictedCaps == IF daemon = "netcfg" THEN {"CAP_NET_ADMIN"} ELSE {}

(***************************************************************************)
(* C13.  Without the debug overrides the event loop only runs in the       *)
(* restricted identity (not root, no capability beyond the retained one),  *)
(* the restriction step comes before the loop, and no step after the       *)
(* restriction changes the identity again or adds a capability.            *)
(***************************************************************************)
C13_IdentityTransitionIsOneWay ==
    /\ [](~DebugOverride =>
            /\ (Has("g_main_loop_run") \/ loop_is_running) =>
                  /\ RestrictionDone
                  /\ identity # "root"
                  /\ started_as_root => identity = "openvpn"
                  /\ proc_caps \subseteq RestrictedCaps
            /\ \A i \in Pos("g_main_loop_run") :
                  \E j \in 1..(i - 1) :
                     trace[j] \in {"drop_root", "capng_change_id"})
    /\ [][(~DebugOverride /\ RestrictionDone) =>
             /\ identity' = identity
             /\ proc_caps' \subseteq proc_caps]_vars

C13_Witness ==
    /\ ~DebugOverride /\ started_as_root /\ identity = "openvpn"
    /\ Has("loop_returned") /\ outcome = "exited" /\ exit_code = 0

\* The calls of teardown.
TeardownCalls ==
    {"g_main_loop_unref", "Detach", "Disable", "Join", "dbus_release"}

(***************************************************************************)
(* C14.  Once the loop has been asked to stop, a further termination       *)
(* trigger (SIGINT, SIGTERM, the watchdog's request) is a no-op: it        *)
(* touches nothing, teardown still makes each of its calls once, the poll  *)
(* thread is joined and the exit code is 0.                                *)
(* Fails in netcfg with idle-exit > 0: after stop_handler has stopped the  *)
(* loop the poll thread is still polling, and its request during teardown  *)
(* is a g_main_loop_quit() on the loop that was already released.          *)
(***************************************************************************)
C14_SecondTriggerIsNoOp ==
    (Has("loop_returned") /\ thrown = NoException) =>
        /\ ~ub
        /\ outcome \in {"running", "exited"}
        /\ \A c \in TeardownCalls : Count(c) <= 1
        /\ outcome = "exited" =>
              /\ exit_code = 0
              /\ Has("Enable") => Count("Disable") = 1 /\ Count("Join") = 1

\* The argument is a decimal numeral: digits only, at least one.
IsNumeral(s) == s # <<>> /\ \A i \in 1..Len(s) : IsDigit(s[i])

\* The number of minutes a numeral asks for.
NumeralValue(s) == AtoiDigits(s, 0)

\* The statement that constructs the watchdog has been passed: Setup() is
\* the call that follows it.
PastIdleCheck == Has("IdleCheck_new") \/ Has("Setup")

(***************************************************************************)
(* C15.  The watchdog is constructed if and only if the idle-exit argument *)
(* is a positive integer n, and then with a threshold of exactly n         *)
(* minutes; 0, a negative or a non-numeric argument gives no watchdog;     *)
(* without the option the threshold is 3 minutes in configmgr and 5 in     *)
(* netcfg.                                                                 *)
(* Fails for a negative argument: atoi's int result is stored in an        *)
(* unsigned int, so "-1" becomes 4294967295 and passes idle_wait_min > 0.  *)
(***************************************************************************)
C15_WatchdogIffPositiveArgument ==
    PastIdleCheck =>
        IF Present(args.idle_exit)
        THEN LET v == GetValue(args.idle_exit, 0)
             IN  IF IsNumeral(v) /\ NumeralValue(v) > 0
                 THEN /\ idle_exit.constructed
                      /\ idle_wait_min = [hi |-> 0, lo |-> NumeralValue(v)]
                 ELSE ~idle_exit.constructed
        ELSE /\ idle_exit.constructed
             /\ idle_wait_min =
                   [hi |-> 0, lo |-> IF daemon = "configmgr" THEN 3 ELSE 5]

(***************************************************************************)
(* C16.  netcfg: CAP_NET_ADMIN is added to the capability state after      *)
(* capng_clear() and before capng_change_id(), and capng_apply() comes     *)
(* after the identity switch; without a debug override, a process that     *)
(* reaches the event loop has made each of the four calls once and runs    *)
(* as openvpn holding exactly CAP_NET_ADMIN.                               *)
(***************************************************************************)
C16_RetainedCapabilitySurvivesSwitch ==
    daemon = "netcfg" =>
        /\ Has("capng_update") => Has("capng_clear")
        /\ AllBefore("capng_clear", "capng_update")
        /\ AllBefore("capng_update", "capng_change_id")
        /\ AllBefore("capng_change_id", "capng_apply")
        /\ (~DebugOverride /\ Has("g_main_loop_run")) =>
              /\ \A c \in {"capng_clear", "capng_update", "capng_change_id",
                           "capng_apply"} : Count(c) = 1
              /\ identity = "openvpn"
              /\ proc_caps = {"CAP_NET_ADMIN"}

C16_Witness ==
    /\ daemon = "netcfg" /\ ~debug_options
    /\ Has("g_main_loop_run") /\ loop_is_running
    /\ identity = "openvpn" /\ proc_caps = {"CAP_NET_ADMIN"}

\* What C17 as claimed and as amended share: Enable() follows a Setup() that
\* returned and precedes the loop, is called at most once, and only on a
\* watchdog that was handed to the payload.
EnableAfterSetup ==
    /\ Count("Enable") <= 1
    /\ Has("Enable") =>
          /\ Has("Setup") /\ thrown.at # "Setup"
          /\ Has("EnableIdleCheck") /\ idle_exit.registered
    /\ AllBefore("Setup", "Enable")
    /\ AllBefore("EnableIdleCheck", "Enable")
    /\ AllBefore("Enable", "g_main_loop_run")

(***************************************************************************)
(* C17 as claimed.  The watchdog is created and enabled only after the     *)
(* payload has been constructed and Setup() has returned, and before the   *)
(* loop starts; Enable() is called at most once and never before           *)
(* EnableIdleCheck().                                                      *)
(* Fails: both daemons construct the watchdog before they call Setup().    *)
(***************************************************************************)
C17_WatchdogCreatedAfterSetup ==
    /\ EnableAfterSetup
    /\ Has("IdleCheck_new") => Has("payload_new") /\ Has("Setup")
    /\ AllBefore("payload_new", "IdleCheck_new")
    /\ AllBefore("Setup", "IdleCheck_new")
    /\ AllBefore("IdleCheck_new", "g_main_loop_run")

(***************************************************************************)
(* C17 as amended.  The watchdog is created, and handed to the payload by  *)
(* EnableIdleCheck(), after the payload has been constructed and before    *)
(* Setup() is called; it is enabled only after Setup() has returned and    *)
(* before the loop starts; Enable() is called at most once and never       *)
(* before EnableIdleCheck().                                               *)
(***************************************************************************)
C17_WatchdogCreatedBeforeSetupEnabledAfter ==
    /\ EnableAfterSetup
    /\ Count("IdleCheck_new") <= 1
    /\ Has("IdleCheck_new") => Has("payload_new") /\ payload # "none"
    /\ AllBefore("payload_new", "IdleCheck_new")
    /\ AllBefore("IdleCheck_new", "EnableIdleCheck")
    /\ AllBefore("EnableIdleCheck", "Setup")
    /\ (Has("Setup") /\ UPositive(idle_wait_min)) => Has("IdleCheck_new")

C17_Witness ==
    /\ Has("IdleCheck_new") /\ Has("Enable") /\ Has("g_main_loop_run")
    /\ payload = "setup" /\ idle_exit.thread = "polling"

(***************************************************************************)
(* C18.  For every log level n in 0..6 given on the command line, the      *)
(* daemon passes exactly n, once, to the payload's log-level setter,       *)
(* before Setup() and before the loop starts; in both daemons and for n = 0 *)
(* too.                                                                    *)
(* Fails in netcfg for n = 0: the setter is only called if log_level > 0.  *)
(***************************************************************************)
C18_GivenLogLevelReachesPayload ==
    (Present(args.log_level) /\ Has("Setup")) =>
        /\ payload_log_level =
              << [hi |-> 0, lo |-> NumeralValue(GetValue(args.log_level, 0))] >>
        /\ Count("SetLogLevel") = 1
        /\ AllBefore("SetLogLevel", "Setup")
        /\ AllBefore("SetLogLevel", "g_main_loop_run")

====
